---- MODULE Spec2Model ----
(***************************************************************************)
(* Model of the dependency graph engine of src/deps_visualizer.py:         *)
(*   build_dependency_graph_dfs      (iterative DFS, one action per loop   *)
(*                                    iteration)                           *)
(*   build_reverse_dependency_graph  (scan of the repository mapping)      *)
(*   print_graph                     (recursive ASCII tree printer)        *)
(*   generate_mermaid_code           (sorted node / edge listing)          *)
(*                                                                         *)
(* A Python dict is modelled as a sequence of <<key, value>> pairs with    *)
(* distinct keys, in insertion order (the iteration order of the dict).    *)
(* A Python list is a sequence, a Python set is a set.                     *)
(***************************************************************************)
EXTENDS Integers, Sequences, FiniteSets, TLC

VARIABLES
    repo_data,       \* the repository mapping: dict package -> dependency list
    start_package,   \* the root / target package of the call
    graph,           \* build_dependency_graph_dfs: dict node -> dependencies
    visited,         \* build_dependency_graph_dfs: set of nodes
    stack,           \* build_dependency_graph_dfs: list of <<node, processed>>
    in_stack,        \* build_dependency_graph_dfs: set of nodes
    has_cycle,       \* build_dependency_graph_dfs: the returned flag
    pc,              \* position of the running call
    lookups,         \* observation: nodes passed to get_deps_func, in order
    pushed,          \* observation: number of stack.append calls so far (+1 for the initial entry)
    back_edge,       \* observation: an ENTER entry was popped for a node of in_stack
    tree,            \* print_graph: the lines printed
    reverse_deps,    \* build_reverse_dependency_graph: the returned list
    mermaid          \* generate_mermaid_code: the lines of the returned text

vars == <<repo_data, start_package, graph, visited, stack, in_stack, has_cycle,
          pc, lookups, pushed, back_edge, tree, reverse_deps, mermaid>>

dfsVars == <<graph, visited, stack, in_stack, has_cycle, lookups, pushed, back_edge>>

(***************************************************************************)
(* Bounds of the explored inputs.                                          *)
(***************************************************************************)
\* largest number of dependency entries (summed over all dependency lists)
\* of an enumerated repository
MaxEdges == 4

\* package names of the enumerated repositories
Packages == {"A", "B", "C"}

\* package names of the named scenarios
ScenarioPackages == {"A", "B", "C", "D", "E", "X"}

(***************************************************************************)
(* Sequences and strings.                                                  *)
(***************************************************************************)
Range(s) == {s[i] : i \in 1..Len(s)}

\* reversed(dependencies)
Reversed(s) == [i \in 1..Len(s) |-> s[Len(s) + 1 - i]]

\* Code points of the characters of a package name (Python compares str
\* values code point by code point, a proper prefix being smaller).
CodePoints(name) ==
    CASE name = "A" -> <<65>>
      [] name = "B" -> <<66>>
      [] name = "C" -> <<67>>
      [] name = "D" -> <<68>>
      [] name = "E" -> <<69>>
      [] name = "X" -> <<88>>

RECURSIVE SeqLess(_, _)
\* list / str "<" of Python on sequences of integers
SeqLess(s, t) ==
    IF s = <<>> THEN t # <<>>
    ELSE IF t = <<>> THEN FALSE
    ELSE IF Head(s) # Head(t) THEN Head(s) < Head(t)
    ELSE SeqLess(Tail(s), Tail(t))

\* str.__lt__
StrLess(a, b) == SeqLess(CodePoints(a), CodePoints(b))

(***************************************************************************)
(* dict                                                                    *)
(***************************************************************************)
DictHas(d, k) == \E i \in 1..Len(d) : d[i][1] = k

\* list(d.keys())
DictKeys(d) == [i \in 1..Len(d) |-> d[i][1]]

\* d.get(k, default)
DictGet(d, k, default) ==
    IF DictHas(d, k) THEN d[CHOOSE i \in 1..Len(d) : d[i][1] = k][2] ELSE default

\* d[k] = v
DictSet(d, k, v) ==
    IF DictHas(d, k)
    THEN [i \in 1..Len(d) |-> IF d[i][1] = k THEN <<k, v>> ELSE d[i]]
    ELSE Append(d, <<k, v>>)

(***************************************************************************)
(* Inputs.                                                                 *)
(***************************************************************************)
RECURSIVE SortedSeq(_)
\* sorted(S) of a set of str: the smallest element first
SortedSeq(S) ==
    IF S = {} THEN <<>>
    ELSE LET m == CHOOSE x \in S : \A y \in S \ {x} : StrLess(x, y)
         IN <<m>> \o SortedSeq(S \ {m})

\* the dict with the keys of order (a sequence of distinct names) and values f
MkDict(order, f) == [i \in 1..Len(order) |-> <<order[i], f[order[i]]>>]

\* the dependency lists of A, B and C cut out of the entries e: the first a
\* entries are the list of A, the next b entries the list of B, the rest
\* the list of C
Split(e, a, b) ==
    [p \in Packages |->
        CASE p = "A" -> SubSeq(e, 1, a)
          [] p = "B" -> SubSeq(e, a + 1, a + b)
          [] p = "C" -> SubSeq(e, a + b + 1, Len(e))]

\* the dicts over the enumerated packages with at most MaxEdges dependency
\* entries whose key order is one of orders; a package that is not a key
\* has no entry in the mapping (an unknown package)
IsInputDict(d, orders) ==
    \E t \in 0..MaxEdges : \E e \in [1..t -> Packages] :
        \E a \in 0..t : \E b \in 0..(t - a) : \E o \in orders :
            /\ \A p \in Packages \ Range(o) : Split(e, a, b)[p] = <<>>
            /\ d = MkDict(o, Split(e, a, b))

\* Scenario 1 of the specification, in the line order of the test repository
\* that main prints (A: B C / B: D / C: D E / D: / E: B)
Scenario1 ==
    << <<"A", <<"B", "C">>>>, <<"B", <<"D">>>>, <<"C", <<"D", "E">>>>,
       <<"D", <<>>>>, <<"E", <<"B">>>> >>

\* Scenario 3: the empty repository
Scenario3 == <<>>

(***************************************************************************)
(* build_dependency_graph_dfs                                              *)
(***************************************************************************)
\* get_deps written as repo_data[pkg_name]: an unknown package raises KeyError
get_deps_strict(pkg_name) ==
    [raised |-> ~DictHas(repo_data, pkg_name), value |-> DictGet(repo_data, pkg_name, <<>>)]

\* get_deps of main: repo_data.get(pkg_name, []).  The result of a call is
\* a record: raised tells whether the call raised instead of returning.
get_deps(pkg_name) == [raised |-> FALSE, value |-> DictGet(repo_data, pkg_name, <<>>)]

\* the loop without its "if node in visited" test
IsVisited_never(node, seen) == FALSE

\* "if node in visited" of the loop
IsVisited(node, seen) == node \in seen

RECURSIVE Deduplicated(_)
\* the list without its repeated entries, first occurrences kept
Deduplicated(l) ==
    IF l = <<>> THEN <<>>
    ELSE LET front == Deduplicated(SubSeq(l, 1, Len(l) - 1))
         IN IF l[Len(l)] \in Range(front) THEN front ELSE Append(front, l[Len(l)])

\* graph[node] stored as list(dict.fromkeys(dependencies))
CopyOf_dedup(dependencies) == Deduplicated(dependencies)

\* dependencies.copy(), the value stored in graph[node]
CopyOf(dependencies) == dependencies

\* the children pushed in list order, without reversed()
PushEntries_unreversed(stk, node, dependencies) ==
    Append(stk, <<node, TRUE>>)
        \o [i \in 1..Len(dependencies) |-> <<dependencies[i], FALSE>>]

\* the children pushed from dependencies[1:], an off-by-one slice
PushEntries_skipfirst(stk, node, dependencies) ==
    LET rest == IF dependencies = <<>> THEN <<>> ELSE Tail(dependencies)
    IN  Append(stk, <<node, TRUE>>)
            \o [i \in 1..Len(rest) |-> <<Reversed(rest)[i], FALSE>>]

\* the EXIT entry appended after the children instead of before them
PushEntries_exitlast(stk, node, dependencies) ==
    Append(stk \o [i \in 1..Len(dependencies) |-> <<Reversed(dependencies)[i], FALSE>>],
           <<node, TRUE>>)

\* the stack after stack.append((node, True)) and the appends of
\* "for dep in reversed(dependencies): stack.append((dep, False))"
PushEntries(stk, node, dependencies) ==
    Append(stk, <<node, TRUE>>)
        \o [i \in 1..Len(dependencies) |-> <<Reversed(dependencies)[i], FALSE>>]

\* the locals of the function before the loop
DfsStart ==
    /\ graph = <<>>
    /\ visited = {}
    /\ stack = << <<start_package, FALSE>> >>
    /\ in_stack = {}
    /\ has_cycle = FALSE
    /\ lookups = <<>>
    /\ pushed = 1
    /\ back_edge = FALSE

\* one iteration of "while stack:"
DfsIteration ==
    /\ pc = "loop"
    /\ stack # <<>>
    /\ LET node      == stack[Len(stack)][1]
           processed == stack[Len(stack)][2]
           popped    == SubSeq(stack, 1, Len(stack) - 1)
       IN  /\ back_edge' = (back_edge \/ (~processed /\ node \in in_stack))
           /\ IF processed
              THEN IF node \in in_stack
                   THEN /\ in_stack' = in_stack \ {node}
                        /\ stack' = popped
                        /\ UNCHANGED <<graph, visited, has_cycle, lookups, pushed, pc>>
                   ELSE \* set.remove raises KeyError
                        /\ pc' = "error"
                        /\ stack' = popped
                        /\ UNCHANGED <<graph, visited, in_stack, has_cycle, lookups, pushed>>
              ELSE IF IsVisited(node, visited)
              THEN /\ stack' = popped
                   /\ UNCHANGED <<graph, visited, in_stack, has_cycle, lookups, pushed, pc>>
              ELSE IF node \in in_stack
              THEN /\ has_cycle' = TRUE
                   /\ stack' = popped
                   /\ UNCHANGED <<graph, visited, in_stack, lookups, pushed, pc>>
              ELSE LET call         == get_deps(node)
                       dependencies == call.value
                   IN  /\ in_stack' = in_stack \cup {node}
                       /\ visited' = visited \cup {node}
                       /\ lookups' = Append(lookups, node)
                       /\ IF call.raised
                          THEN \* the exception leaves the function
                               /\ pc' = "error"
                               /\ stack' = popped
                               /\ UNCHANGED <<graph, has_cycle, pushed>>
                          ELSE /\ graph' = DictSet(graph, node, CopyOf(dependencies))
                               /\ stack' = PushEntries(popped, node, dependencies)
                               /\ pushed' = pushed + 1 + Len(dependencies)
                               /\ UNCHANGED <<has_cycle, pc>>
    /\ UNCHANGED <<repo_data, start_package, tree, reverse_deps, mermaid>>

\* the loop condition fails: "return graph, has_cycle"
DfsReturn ==
    /\ pc = "loop"
    /\ stack = <<>>
    /\ pc' = "done"
    /\ UNCHANGED <<repo_data, start_package, dfsVars, tree, reverse_deps, mermaid>>

(***************************************************************************)
(* print_graph                                                             *)
(***************************************************************************)
\* the line of a repeated node printed without the cycle marker
CycleLine_unmarked(indent, pkg) == [indent |-> indent, pkg |-> pkg, marker |-> ""]

\* A printed line f"{indent}`-- {pkg}" or f"{indent}`-- {pkg} (cycle)":
\* indent is the sequence of four-character pieces the callers added,
\* marker is the text after the package name.
PlainLine(indent, pkg) == [indent |-> indent, pkg |-> pkg, marker |-> ""]

CycleLine(indent, pkg) == [indent |-> indent, pkg |-> pkg, marker |-> " (cycle)"]

RECURSIVE print_dependencies(_, _, _, _)
RECURSIVE print_children(_, _, _, _, _)
\* print_dependencies(pkg, indent, visited) over the dict g; the value is
\* the sequence of lines the call prints
print_dependencies(g, pkg, indent, seen) ==
    IF pkg \in seen
    THEN <<CycleLine(indent, pkg)>>
    ELSE <<PlainLine(indent, pkg)>>
             \o print_children(g, DictGet(g, pkg, <<>>), 1, indent, seen \cup {pkg})

\* "for i, dep in enumerate(deps)" from index i on; seen is the caller's
\* set, each recursive call receives visited.copy()
print_children(g, deps, i, indent, seen) ==
    IF i > Len(deps)
    THEN <<>>
    ELSE LET is_last    == (i = Len(deps))
             new_indent == Append(indent, IF is_last THEN "    " ELSE "|   ")
         IN  print_dependencies(g, deps[i], new_indent, seen)
                 \o print_children(g, deps, i + 1, indent, seen)

\* print_graph(graph, start_package): the title line and the tree
print_graph(g, start) ==
    [title |-> start, lines |-> print_dependencies(g, start, <<>>, {})]

NoTree == [title |-> "", lines |-> <<>>]

\* main prints the tree of the graph the builder returned
PrintGraph ==
    /\ pc = "done"
    /\ tree' = print_graph(graph, start_package)
    /\ pc' = "printed"
    /\ UNCHANGED <<repo_data, start_package, dfsVars, reverse_deps, mermaid>>

(***************************************************************************)
(* build_reverse_dependency_graph                                          *)
(***************************************************************************)
\* the test written as "if dependencies and dependencies[0] == target_package"
Lists_first(target_package, dependencies) ==
    dependencies # <<>> /\ dependencies[1] = target_package

\* the test written as "if dependencies"
Lists_nonempty(target_package, dependencies) == dependencies # <<>>

\* "if target_package in dependencies"
Lists(target_package, dependencies) == target_package \in Range(dependencies)

RECURSIVE ScanItems(_, _, _, _)
\* "for package, dependencies in repo_data.items()" from item i on
ScanItems(target_package, repo, i, acc) ==
    IF i > Len(repo)
    THEN acc
    ELSE ScanItems(target_package, repo, i + 1,
                   IF Lists(target_package, repo[i][2])
                   THEN Append(acc, repo[i][1])
                   ELSE acc)

build_reverse_dependency_graph(target_package, repo) ==
    ScanItems(target_package, repo, 1, <<>>)

ReverseDeps ==
    /\ pc = "reverse"
    /\ reverse_deps' = build_reverse_dependency_graph(start_package, repo_data)
    /\ pc' = "reversed"
    /\ UNCHANGED <<repo_data, start_package, dfsVars, tree, mermaid>>

(***************************************************************************)
(* generate_mermaid_code                                                   *)
(***************************************************************************)
\* the pairs ordered by dependency first, as sorted(edges, key=reversed)
EdgeLess_depfirst(e, f) ==
    \/ StrLess(e[2], f[2])
    \/ e[2] = f[2] /\ StrLess(e[1], f[1])

\* tuple "<" on (pkg, dep) pairs of str
EdgeLess(e, f) ==
    \/ StrLess(e[1], f[1])
    \/ e[1] = f[1] /\ StrLess(e[2], f[2])

\* sorted(edges): the pair at index i has exactly i - 1 smaller pairs
SortedEdges(S) ==
    [i \in 1..Cardinality(S) |->
        CHOOSE x \in S : Cardinality({y \in S : EdgeLess(y, x)}) = i - 1]

\* the set nodes: every key and every element of every dependency list
MermaidNodes(g) ==
    Range(DictKeys(g)) \cup UNION {Range(g[i][2]) : i \in 1..Len(g)}

\* the set edges of (pkg, dep) tuples
MermaidEdges(g) ==
    UNION {{<<g[i][1], g[i][2][j]>> : j \in 1..Len(g[i][2])} : i \in 1..Len(g)}

\* f"    {node}[{node}]", in both branches of "if node == start_package"
NodeLine(node, start) ==
    IF node = start
    THEN <<"    ", node, "[", node, "]">>
    ELSE <<"    ", node, "[", node, "]">>

\* f"    {pkg} --> {dep}"
EdgeLine(e) == <<"    ", e[1], " --> ", e[2]>>

\* the list lines; the returned text is "\n".join(lines)
generate_mermaid_code(g, start) ==
    LET nodes == SortedSeq(MermaidNodes(g))
        edges == SortedEdges(MermaidEdges(g))
    IN  << <<"graph TD">> >>
            \o [i \in 1..Len(nodes) |-> NodeLine(nodes[i], start)]
            \o [i \in 1..Len(edges) |-> EdgeLine(edges[i])]

GenerateMermaid ==
    /\ pc = "mermaid"
    /\ mermaid' = generate_mermaid_code(graph, start_package)
    /\ pc' = "generated"
    /\ UNCHANGED <<repo_data, start_package, dfsVars, tree, reverse_deps>>

(***************************************************************************)
(* Specifications.                                                         *)
(***************************************************************************)
\* the sequences of distinct enumerated package names
KeyOrders ==
    {o \in UNION {[1..k -> Packages] : k \in 0..Cardinality(Packages)} :
        \A i, j \in 1..Len(o) : i # j => o[i] # o[j]}

\* one key order for each set of keys
SortedOrders == {SortedSeq(S) : S \in SUBSET Packages}

\* the repositories and roots the builder is run on (the builder only looks
\* keys up, so one insertion order per mapping is explored)
DfsInputs ==
    \/ /\ IsInputDict(repo_data, SortedOrders)
       /\ start_package \in Packages
    \/ /\ repo_data = Scenario1
       /\ start_package \in {"A", "B", "C", "D", "E"}
    \/ /\ repo_data = Scenario3
       /\ start_package = "X"

\* build_dependency_graph_dfs followed by print_graph on its result
Init ==
    /\ DfsInputs
    /\ DfsStart
    /\ pc = "loop"
    /\ tree = NoTree
    /\ reverse_deps = <<>>
    /\ mermaid = <<>>

Next ==
    \/ DfsIteration
    \/ DfsReturn
    \/ PrintGraph

Spec == Init /\ [][Next]_vars

\* the loop runs in one thread until its condition fails
FairSpec == Spec /\ WF_vars(Next)

\* the variables of the builder, when it does not run
DfsIdle ==
    /\ visited = {}
    /\ stack = <<>>
    /\ in_stack = {}
    /\ has_cycle = FALSE
    /\ lookups = <<>>
    /\ pushed = 0
    /\ back_edge = FALSE

\* build_reverse_dependency_graph on every repository and target
InitRev ==
    /\ \/ IsInputDict(repo_data, KeyOrders) /\ start_package \in Packages
       \/ repo_data = Scenario1 /\ start_package \in {"A", "B", "C", "D", "E"}
    /\ graph = <<>>
    /\ DfsIdle
    /\ pc = "reverse"
    /\ tree = NoTree
    /\ reverse_deps = <<>>
    /\ mermaid = <<>>

NextRev == ReverseDeps

SpecRev == InitRev /\ [][NextRev]_vars

\* generate_mermaid_code on every dependency graph
InitMermaid ==
    /\ \/ IsInputDict(graph, KeyOrders) /\ start_package \in Packages
       \/ graph = Scenario1 /\ start_package = "A"
    /\ repo_data = <<>>
    /\ DfsIdle
    /\ pc = "mermaid"
    /\ tree = NoTree
    /\ reverse_deps = <<>>
    /\ mermaid = <<>>

NextMermaid == GenerateMermaid

SpecMermaid == InitMermaid /\ [][NextMermaid]_vars

(***************************************************************************)
(* Properties of build_dependency_graph_dfs.                               *)
(***************************************************************************)
\* the dependency list the repository holds for n, [] for an unknown package
Adjacency(n) ==
    IF \E i \in 1..Len(repo_data) : repo_data[i][1] = n
    THEN repo_data[CHOOSE i \in 1..Len(repo_data) : repo_data[i][1] = n][2]
    ELSE <<>>

Successors(S) == UNION {Range(Adjacency(n)) : n \in S}

RECURSIVE Closure(_)
\* the nodes reachable from the nodes of S by zero or more edges
Closure(S) ==
    LET T == S \cup Successors(S)
    IN IF T = S THEN S ELSE Closure(T)

Reachable == Closure({start_package})

\* some node reachable from the root lies on a cycle
CycleReachable == \E n \in Reachable : n \in Closure(Successors({n}))

RECURSIVE SumLens(_)
\* the number of dependency entries of the nodes of S
SumLens(S) ==
    IF S = {} THEN 0
    ELSE LET n == CHOOSE x \in S : TRUE
         IN Len(Adjacency(n)) + SumLens(S \ {n})

Occurrences(l, x) == Cardinality({i \in 1..Len(l) : l[i] = x})

\* the builder has returned
Returned == pc \in {"done", "printed"}

\* C1: when the builder returns, has_cycle is true exactly if an ENTER entry
\* was popped for a node of the open path (a back-edge), and exactly if a
\* cycle is reachable from the root.
C1_CycleFlagIffBackEdge ==
    Returned => /\ has_cycle <=> back_edge
                /\ has_cycle <=> CycleReachable

\* C2 as stated: for Scenario 1 and root A the builder returns has_cycle =
\* true, the keys A, B, C, D, E and graph[E] = [B].
C2_Scenario1_AsStated ==
    (Returned /\ repo_data = Scenario1 /\ start_package = "A")
        => /\ has_cycle = TRUE
           /\ Range(DictKeys(graph)) = {"A", "B", "C", "D", "E"}
           /\ Len(graph) = 5
           /\ DictGet(graph, "E", <<>>) = <<"B">>

\* C2 (amended): for Scenario 1 and root A the builder returns has_cycle =
\* false (Scenario 1 has no cycle: B is not an ancestor of E), the keys
\* A, B, C, D, E and graph[E] = [B].
C2_Scenario1 ==
    (Returned /\ repo_data = Scenario1 /\ start_package = "A")
        => /\ has_cycle = FALSE
           /\ ~CycleReachable
           /\ Range(DictKeys(graph)) = {"A", "B", "C", "D", "E"}
           /\ Len(graph) = 5
           /\ DictGet(graph, "E", <<>>) = <<"B">>

C2_Witness ==
    /\ pc = "done"
    /\ repo_data = Scenario1
    /\ start_package = "A"
    /\ DictHas(graph, "E")

\* C3: when the builder returns, the keys of graph are exactly the nodes
\* reachable from the root, each key occurs once, get_deps_func was called
\* once for each reachable node and for no other node, and graph[n] is the
\* dependency list of n with order and duplicates kept.
C3_ReachableOnce ==
    Returned =>
        /\ Range(DictKeys(graph)) = Reachable
        /\ Len(graph) = Cardinality(Reachable)
        /\ Range(lookups) = Reachable
        /\ \A n \in Reachable : Occurrences(lookups, n) = 1
        /\ \A i \in 1..Len(graph) : graph[i][2] = Adjacency(graph[i][1])

\* a run with a repeated dependency entry, a node referenced twice and a
\* package of the repository that is not reachable
C3_Witness ==
    /\ pc = "done"
    /\ Len(graph) >= 2
    /\ \E i \in 1..Len(graph) : \E j, k \in 1..Len(graph[i][2]) :
           j # k /\ graph[i][2][j] = graph[i][2][k]
    /\ \E i \in 1..Len(repo_data) : ~DictHas(graph, repo_data[i][1])

\* C4: the builder never fails on a package without an entry in the
\* repository: such a package becomes a key with an empty dependency list,
\* every unknown dependency of a key is itself a key, and for the empty
\* repository the result is {root: []} with has_cycle = false.
C4_UnknownIsLeaf ==
    /\ pc # "error"
    /\ Returned =>
        /\ \A i \in 1..Len(graph) :
              ~DictHas(repo_data, graph[i][1]) => graph[i][2] = <<>>
        /\ \A i \in 1..Len(graph) : \A dep \in Range(graph[i][2]) :
              ~DictHas(repo_data, dep) => DictHas(graph, dep)
        /\ repo_data = <<>> =>
              /\ graph = << <<start_package, <<>>>> >>
              /\ has_cycle = FALSE

\* an unknown dependency of a known package has been recorded
C4_Witness ==
    /\ pc = "done"
    /\ DictHas(repo_data, start_package)
    /\ \E i \in 1..Len(graph) :
          /\ ~DictHas(repo_data, graph[i][1])
          /\ graph[i][2] = <<>>
          /\ \E k \in 1..Len(graph) : graph[i][1] \in Range(graph[k][2])

\* C9: every node is expanded at most once, at most 1 + V + E entries are
\* ever pushed (V reachable nodes, E dependency entries of the reachable
\* nodes, repeated entries counted), and the loop ends with an empty stack.
C9_Terminates ==
    /\ [](/\ \A n \in Range(lookups) : Occurrences(lookups, n) = 1
          /\ pushed <= 1 + Cardinality(Reachable) + SumLens(Reachable)
          /\ Len(stack) <= pushed
          /\ Returned => stack = <<>>)
    /\ <>(pc = "done" /\ stack = <<>>)

\* a finished run on a graph with a self-loop and a repeated entry
C9_Witness ==
    /\ pc = "done"
    /\ stack = <<>>
    /\ \E i \in 1..Len(graph) :
          /\ graph[i][1] \in Range(graph[i][2])
          /\ \E j, k \in 1..Len(graph[i][2]) : j # k /\ graph[i][2][j] = graph[i][2][k]
    /\ pushed = 1 + Cardinality(Reachable) + SumLens(Reachable)

RECURSIVE RecVisit(_, _)
RECURSIVE RecVisitAll(_, _, _)
\* recursive depth-first search: the nodes visited so far, in visiting
\* order, after visit(node) was called with order already visited
RecVisit(node, order) ==
    IF node \in Range(order) THEN order
    ELSE RecVisitAll(Adjacency(node), 1, Append(order, node))

\* the dependencies deps[i], deps[i+1], ... visited left to right
RecVisitAll(deps, i, order) ==
    IF i > Len(deps) THEN order
    ELSE RecVisitAll(deps, i + 1, RecVisit(deps[i], order))

\* C10: the keys of graph, in insertion order, are the pre-order of the
\* recursive depth-first search from the root that visits dependencies
\* left to right and skips visited nodes.
C10_PreOrder ==
    Returned => DictKeys(graph) = RecVisit(start_package, <<>>)

\* a run where a node has two dependencies that are both entered, the
\* first one before the second (Scenario 1: A, B, D, C, E)
C10_Witness ==
    /\ pc = "done"
    /\ repo_data = Scenario1
    /\ DictKeys(graph) = <<"A", "B", "D", "C", "E">>

\* consistency of the observation back_edge with the graph: an ENTER entry
\* for a node of the open path is popped exactly if a cycle is reachable
BackEdgeIffCycle == Returned => (back_edge <=> CycleReachable)

(***************************************************************************)
(* Properties of build_reverse_dependency_graph.                           *)
(***************************************************************************)
\* the packages whose dependency list holds n
DirectDependents(n) ==
    {repo_data[i][1] : i \in {k \in 1..Len(repo_data) : n \in Range(repo_data[k][2])}}

RECURSIVE DependentsClosure(_)
\* the packages reached from the nodes of S by asking "who depends on this"
\* zero or more times
DependentsClosure(S) ==
    LET T == S \cup UNION {DirectDependents(n) : n \in S}
    IN IF T = S THEN S ELSE DependentsClosure(T)

\* the packages reached from the target by one or more such steps
TransitiveDependents == DependentsClosure(DirectDependents(start_package))

\* the index of key k in the repository
KeyIndex(k) == CHOOSE i \in 1..Len(repo_data) : repo_data[i][1] = k

\* C5: Q is in the list returned for target P exactly if P is an element of
\* the dependency list of Q; each such Q occurs once, in the iteration order
\* of the repository; for Scenario 1 and target D the result is B, C.
C5_DirectDependents ==
    pc = "reversed" =>
        /\ \A i \in 1..Len(repo_data) :
              repo_data[i][1] \in Range(reverse_deps)
                  <=> (\E j \in 1..Len(repo_data[i][2]) : repo_data[i][2][j] = start_package)
        /\ \A q \in Range(reverse_deps) : DictHas(repo_data, q)
        /\ \A i, j \in 1..Len(reverse_deps) :
              i < j => KeyIndex(reverse_deps[i]) < KeyIndex(reverse_deps[j])
        /\ (repo_data = Scenario1 /\ start_package = "D") => reverse_deps = <<"B", "C">>

\* two dependents returned in repository order, which is not the sorted
\* order, one of them listing the target twice, and a package left out
C5_Witness ==
    /\ pc = "reversed"
    /\ Len(reverse_deps) = 2
    /\ StrLess(reverse_deps[2], reverse_deps[1])
    /\ Len(repo_data) = 3
    /\ \E i \in 1..Len(repo_data) : Occurrences(repo_data[i][2], start_package) = 2

Depth(i) == Len(tree.lines[i].indent)

Marked(i) == tree.lines[i].marker # ""

\* the lines above line i that are on the path from the root to line i
PathTo(i) ==
    {j \in 1..(i - 1) :
        /\ Depth(j) < Depth(i)
        /\ \A k \in (j + 1)..(i - 1) : Depth(k) > Depth(j)}

\* the packages of the lines printed directly beneath line i, in order
ChildrenOf(i) ==
    LET n    == Len(tree.lines)
        idx  == [k \in 1..n |-> k]
        kids == SelectSeq(idx, LAMBDA j :
                    /\ j > i
                    /\ Depth(j) = Depth(i) + 1
                    /\ \A k \in (i + 1)..j : Depth(k) > Depth(i))
    IN [k \in 1..Len(kids) |-> tree.lines[kids[k]].pkg]

\* C7: in the tree printed for the graph the builder returned, a line
\* carries the cycle marker and has no children exactly if its node already
\* occurs on the path from the root to it; every other line has the
\* dependencies of its node, in list order, as children; the tree is
\* rooted at the start package and is never deeper than the number of keys.
C7_TreeShape ==
    pc = "printed" =>
        /\ tree.title = start_package
        /\ Len(tree.lines) >= 1
        /\ tree.lines[1].pkg = start_package
        /\ \A i \in 1..Len(tree.lines) :
              /\ (Depth(i) = 0) <=> (i = 1)
              /\ Depth(i) <= Len(graph)
              /\ Marked(i) <=> (tree.lines[i].pkg \in {tree.lines[j].pkg : j \in PathTo(i)})
              /\ Marked(i) => ChildrenOf(i) = <<>>
              /\ ~Marked(i) => ChildrenOf(i) = DictGet(graph, tree.lines[i].pkg, <<>>)

\* a printed tree with a marked line and with a node printed twice without
\* marker, both times with its children
C7_Witness ==
    /\ pc = "printed"
    /\ \E i \in 1..Len(tree.lines) : Marked(i)
    /\ \E i, j \in 1..Len(tree.lines) :
          /\ i < j
          /\ tree.lines[i].pkg = tree.lines[j].pkg
          /\ ~Marked(i) /\ ~Marked(j)
          /\ ChildrenOf(i) # <<>>
          /\ ChildrenOf(j) = ChildrenOf(i)

(***************************************************************************)
(* Properties of generate_mermaid_code.                                    *)
(***************************************************************************)
\* the packages that are a key of g or occur in a dependency list of g
NodeSet(g) ==
    {g[i][1] : i \in 1..Len(g)} \cup {d \in Packages \cup ScenarioPackages :
                                        \E i \in 1..Len(g) : \E j \in 1..Len(g[i][2]) : g[i][2][j] = d}

\* the pairs <<p, d>> with d an entry of the dependency list of the key p
EdgeSet(g) ==
    {e \in NodeSet(g) \X NodeSet(g) :
        \E i \in 1..Len(g) : g[i][1] = e[1] /\ \E j \in 1..Len(g[i][2]) : g[i][2][j] = e[2]}

\* the dict with every node of g as a key, keys ascending, and for each key
\* its distinct dependencies, ascending
Canonical(g) ==
    LET keys == SortedSeq(NodeSet(g))
    IN [i \in 1..Len(keys) |->
           <<keys[i], SortedSeq({e[2] : e \in {f \in EdgeSet(g) : f[1] = keys[i]}})>>]

\* C8: the text is the line "graph TD", then one declaration for each
\* distinct package that is a key or occurs in a dependency list, ascending,
\* then one edge line for each distinct (package, dependency) pair,
\* ascending by package and then by dependency; it equals the text for the
\* canonical graph with the same nodes and edges.
C8_MermaidCanonical ==
    pc = "generated" =>
        LET N  == NodeSet(graph)
            E  == EdgeSet(graph)
            nN == Cardinality(N)
            nE == Cardinality(E)
        IN  /\ Len(mermaid) = 1 + nN + nE
            /\ mermaid[1] = <<"graph TD">>
            /\ \A i \in 1..nN :
                  /\ mermaid[1 + i][2] \in N
                  /\ mermaid[1 + i] = <<"    ", mermaid[1 + i][2], "[", mermaid[1 + i][2], "]">>
                  /\ i < nN => StrLess(mermaid[1 + i][2], mermaid[2 + i][2])
            /\ \A i \in 1..nE :
                  LET l == mermaid[1 + nN + i]
                  IN  /\ l = <<"    ", l[2], " --> ", l[4]>>
                      /\ <<l[2], l[4]>> \in E
                      /\ i < nE =>
                            LET m == mermaid[2 + nN + i]
                            IN  \/ StrLess(l[2], m[2])
                                \/ l[2] = m[2] /\ StrLess(l[4], m[4])
            /\ mermaid = generate_mermaid_code(Canonical(graph), start_package)

\* a text for a graph whose keys are not in ascending order, with a repeated
\* dependency entry and a node that is not a key
C8_Witness ==
    /\ pc = "generated"
    /\ Len(graph) >= 2
    /\ StrLess(graph[2][1], graph[1][1])
    /\ \E i \in 1..Len(graph) : \E j, k \in 1..Len(graph[i][2]) :
          j # k /\ graph[i][2][j] = graph[i][2][k]
    /\ \E i \in 1..Len(graph) : \E d \in Range(graph[i][2]) : ~DictHas(graph, d)
    /\ graph # Canonical(graph)

(***************************************************************************)
(* Invariants of the loop of build_dependency_graph_dfs.                   *)
(***************************************************************************)
\* the positions of the EXIT entries (node, True) on the stack, bottom first
ExitPositions ==
    SelectSeq([i \in 1..Len(stack) |-> i], LAMBDA i : stack[i][2])

\* the nodes of the pending EXIT entries, bottom first
OpenPath == [k \in 1..Len(ExitPositions) |-> stack[ExitPositions[k]][1]]

\* C11: between two iterations of the loop, in_stack is a subset of
\* visited; in_stack is the set of nodes with a pending EXIT entry and no
\* node has two; these nodes form the open path (it starts at the root,
\* each next node is a dependency of the one before, and every pending
\* ENTER entry is a dependency of the last path node beneath it);
\* in_stack.remove never fails and in_stack is empty at the return.
C11_OpenPath ==
    /\ pc # "error"
    /\ in_stack \subseteq visited
    /\ in_stack = Range(OpenPath)
    /\ \A j, k \in 1..Len(OpenPath) : j # k => OpenPath[j] # OpenPath[k]
    /\ OpenPath # <<>> => OpenPath[1] = start_package
    /\ \A k \in 1..(Len(OpenPath) - 1) : OpenPath[k + 1] \in Range(Adjacency(OpenPath[k]))
    /\ \A i \in 1..Len(stack) :
          ~stack[i][2] =>
              \/ i = 1 /\ visited = {} /\ stack[i][1] = start_package
              \/ \E j \in 1..(i - 1) :
                    /\ stack[j][2]
                    /\ \A k \in (j + 1)..(i - 1) : ~stack[k][2]
                    /\ stack[i][1] \in Range(Adjacency(stack[j][1]))
    /\ Returned => in_stack = {}

\* an iteration boundary with three nodes on the open path and an ENTER
\* entry still pending above them
C11_Witness ==
    /\ pc = "loop"
    /\ Cardinality(in_stack) = 3
    /\ Len(OpenPath) = 3
    /\ ~stack[Len(stack)][2]
====
